---- MODULE Spec2Model ----
(***************************************************************************)
(* A model of the Amazon scraper (src/main.py): the per-fragment record    *)
(* assembly  AmazonScraper._extract_product_details,  the page loop        *)
(* AmazonScraper.scrape_amazon_products  and the relational sink           *)
(* AmazonScraper.save_to_database.                                         *)
(*                                                                         *)
(* A text is a sequence of one-character strings.  A fragment is a record  *)
(* whose fields are the selectors that match a sub-element; a selector     *)
(* that matches nothing is not a field of the record.  Python's None is    *)
(* the empty tuple and a value v that may be None is the tuple <<v>>.  A    *)
(* float is an IEEE 754 binary64 value, so that float() rounds the literal  *)
(* it reads and the subtraction of two prices rounds its result as the      *)
(* interpreter does.                                                        *)
(***************************************************************************)
EXTENDS Integers, Sequences, FiniteSets, TLC

VARIABLES
    fragment,          \* the product_element handed to _extract_product_details
    result,            \* what the call did: not called, returned a record, raised
    pc,                \* scrape_amazon_products: position in the function
    max_pages,         \* its argument
    page,              \* the loop variable of the page loop
    product_elements,  \* the elements the wait returned for the current page
    idx,               \* position of the fragment loop in product_elements
    products,          \* the list being built
    driver,            \* "none" | "open" | "quit"
    events,            \* history: the driver calls made, in order
    loaded,            \* history: the element lists of the pages that loaded
    returned,          \* the value returned (None until the return)
    spc,               \* save_to_database: position in the function
    to_save,           \* its argument
    si,                \* index of the product being inserted
    step,              \* which of the four execute calls comes next
    committed,         \* the rows visible in the database
    pending,           \* the rows of the open transaction
    next_id            \* the next value of the Product_Id sequence

extractVars == <<fragment, result>>
scrapeVars == <<pc, max_pages, page, product_elements, idx, products, driver,
                events, loaded, returned>>
saveVars == <<spc, to_save, si, step, committed, pending, next_id>>
vars == <<fragment, result, pc, max_pages, page, product_elements, idx,
          products, driver, events, loaded, returned, spc, to_save, si, step,
          committed, pending, next_id>>

-----------------------------------------------------------------------------
(* Bounds of the input sets. *)
MaxPriceLen == 3
MaxReviewLen == 4
MaxRatingLen == 4
MaxAmountLen == 3
MaxPages == 2
MaxElements == 2
MaxProducts == 2

-----------------------------------------------------------------------------
(* Python values. *)
None == <<>>
Some(v) == <<v>>

NA == <<"N", "/", "A">>
ZeroText == <<"0">>

(* Characters.  A character is a one-character string; a character that has
   no printable ASCII form is written by its escape ("\t") or by its code
   point ("U+00A0"). *)

(* the characters c with c.isspace(): what str.strip() and str.split() take
   for blank *)
Whitespace ==
    {"\t", "\n", "U+000B", "\f", "\r", "U+001C", "U+001D",
     "U+001E", "U+001F", " ", "U+0085", "U+00A0", "U+1680", "U+2000",
     "U+2001", "U+2002", "U+2003", "U+2004", "U+2005", "U+2006", "U+2007",
     "U+2008", "U+2009", "U+200A", "U+2028", "U+2029", "U+202F", "U+205F",
     "U+3000"}

IsSpace(c) == c \in Whitespace

(* the blanks float() and int() drop around a literal: those of str.isspace
   except the four separators U+001C..U+001F *)
NumericSpace == Whitespace \ {"U+001C", "U+001D", "U+001E", "U+001F"}

(* the characters c with c.isdecimal(), in runs of ten with the values 0..9:
   the digits float() and int() read *)
DecimalBlocks ==
    {<<"0", "1", "2", "3", "4", "5", "6", "7", "8", "9">>,
     <<"U+0660", "U+0661", "U+0662", "U+0663", "U+0664", "U+0665", "U+0666", "U+0667", "U+0668", "U+0669">>,
     <<"U+06F0", "U+06F1", "U+06F2", "U+06F3", "U+06F4", "U+06F5", "U+06F6", "U+06F7", "U+06F8", "U+06F9">>,
     <<"U+07C0", "U+07C1", "U+07C2", "U+07C3", "U+07C4", "U+07C5", "U+07C6", "U+07C7", "U+07C8", "U+07C9">>,
     <<"U+0966", "U+0967", "U+0968", "U+0969", "U+096A", "U+096B", "U+096C", "U+096D", "U+096E", "U+096F">>,
     <<"U+09E6", "U+09E7", "U+09E8", "U+09E9", "U+09EA", "U+09EB", "U+09EC", "U+09ED", "U+09EE", "U+09EF">>,
     <<"U+0A66", "U+0A67", "U+0A68", "U+0A69", "U+0A6A", "U+0A6B", "U+0A6C", "U+0A6D", "U+0A6E", "U+0A6F">>,
     <<"U+0AE6", "U+0AE7", "U+0AE8", "U+0AE9", "U+0AEA", "U+0AEB", "U+0AEC", "U+0AED", "U+0AEE", "U+0AEF">>,
     <<"U+0B66", "U+0B67", "U+0B68", "U+0B69", "U+0B6A", "U+0B6B", "U+0B6C", "U+0B6D", "U+0B6E", "U+0B6F">>,
     <<"U+0BE6", "U+0BE7", "U+0BE8", "U+0BE9", "U+0BEA", "U+0BEB", "U+0BEC", "U+0BED", "U+0BEE", "U+0BEF">>,
     <<"U+0C66", "U+0C67", "U+0C68", "U+0C69", "U+0C6A", "U+0C6B", "U+0C6C", "U+0C6D", "U+0C6E", "U+0C6F">>,
     <<"U+0CE6", "U+0CE7", "U+0CE8", "U+0CE9", "U+0CEA", "U+0CEB", "U+0CEC", "U+0CED", "U+0CEE", "U+0CEF">>,
     <<"U+0D66", "U+0D67", "U+0D68", "U+0D69", "U+0D6A", "U+0D6B", "U+0D6C", "U+0D6D", "U+0D6E", "U+0D6F">>,
     <<"U+0DE6", "U+0DE7", "U+0DE8", "U+0DE9", "U+0DEA", "U+0DEB", "U+0DEC", "U+0DED", "U+0DEE", "U+0DEF">>,
     <<"U+0E50", "U+0E51", "U+0E52", "U+0E53", "U+0E54", "U+0E55", "U+0E56", "U+0E57", "U+0E58", "U+0E59">>,
     <<"U+0ED0", "U+0ED1", "U+0ED2", "U+0ED3", "U+0ED4", "U+0ED5", "U+0ED6", "U+0ED7", "U+0ED8", "U+0ED9">>,
     <<"U+0F20", "U+0F21", "U+0F22", "U+0F23", "U+0F24", "U+0F25", "U+0F26", "U+0F27", "U+0F28", "U+0F29">>,
     <<"U+1040", "U+1041", "U+1042", "U+1043", "U+1044", "U+1045", "U+1046", "U+1047", "U+1048", "U+1049">>,
     <<"U+1090", "U+1091", "U+1092", "U+1093", "U+1094", "U+1095", "U+1096", "U+1097", "U+1098", "U+1099">>,
     <<"U+17E0", "U+17E1", "U+17E2", "U+17E3", "U+17E4", "U+17E5", "U+17E6", "U+17E7", "U+17E8", "U+17E9">>,
     <<"U+1810", "U+1811", "U+1812", "U+1813", "U+1814", "U+1815", "U+1816", "U+1817", "U+1818", "U+1819">>,
     <<"U+1946", "U+1947", "U+1948", "U+1949", "U+194A", "U+194B", "U+194C", "U+194D", "U+194E", "U+194F">>,
     <<"U+19D0", "U+19D1", "U+19D2", "U+19D3", "U+19D4", "U+19D5", "U+19D6", "U+19D7", "U+19D8", "U+19D9">>,
     <<"U+1A80", "U+1A81", "U+1A82", "U+1A83", "U+1A84", "U+1A85", "U+1A86", "U+1A87", "U+1A88", "U+1A89">>,
     <<"U+1A90", "U+1A91", "U+1A92", "U+1A93", "U+1A94", "U+1A95", "U+1A96", "U+1A97", "U+1A98", "U+1A99">>,
     <<"U+1B50", "U+1B51", "U+1B52", "U+1B53", "U+1B54", "U+1B55", "U+1B56", "U+1B57", "U+1B58", "U+1B59">>,
     <<"U+1BB0", "U+1BB1", "U+1BB2", "U+1BB3", "U+1BB4", "U+1BB5", "U+1BB6", "U+1BB7", "U+1BB8", "U+1BB9">>,
     <<"U+1C40", "U+1C41", "U+1C42", "U+1C43", "U+1C44", "U+1C45", "U+1C46", "U+1C47", "U+1C48", "U+1C49">>,
     <<"U+1C50", "U+1C51", "U+1C52", "U+1C53", "U+1C54", "U+1C55", "U+1C56", "U+1C57", "U+1C58", "U+1C59">>,
     <<"U+A620", "U+A621", "U+A622", "U+A623", "U+A624", "U+A625", "U+A626", "U+A627", "U+A628", "U+A629">>,
     <<"U+A8D0", "U+A8D1", "U+A8D2", "U+A8D3", "U+A8D4", "U+A8D5", "U+A8D6", "U+A8D7", "U+A8D8", "U+A8D9">>,
     <<"U+A900", "U+A901", "U+A902", "U+A903", "U+A904", "U+A905", "U+A906", "U+A907", "U+A908", "U+A909">>,
     <<"U+A9D0", "U+A9D1", "U+A9D2", "U+A9D3", "U+A9D4", "U+A9D5", "U+A9D6", "U+A9D7", "U+A9D8", "U+A9D9">>,
     <<"U+A9F0", "U+A9F1", "U+A9F2", "U+A9F3", "U+A9F4", "U+A9F5", "U+A9F6", "U+A9F7", "U+A9F8", "U+A9F9">>,
     <<"U+AA50", "U+AA51", "U+AA52", "U+AA53", "U+AA54", "U+AA55", "U+AA56", "U+AA57", "U+AA58", "U+AA59">>,
     <<"U+ABF0", "U+ABF1", "U+ABF2", "U+ABF3", "U+ABF4", "U+ABF5", "U+ABF6", "U+ABF7", "U+ABF8", "U+ABF9">>,
     <<"U+FF10", "U+FF11", "U+FF12", "U+FF13", "U+FF14", "U+FF15", "U+FF16", "U+FF17", "U+FF18", "U+FF19">>,
     <<"U+104A0", "U+104A1", "U+104A2", "U+104A3", "U+104A4", "U+104A5", "U+104A6", "U+104A7", "U+104A8", "U+104A9">>,
     <<"U+10D30", "U+10D31", "U+10D32", "U+10D33", "U+10D34", "U+10D35", "U+10D36", "U+10D37", "U+10D38", "U+10D39">>,
     <<"U+11066", "U+11067", "U+11068", "U+11069", "U+1106A", "U+1106B", "U+1106C", "U+1106D", "U+1106E", "U+1106F">>,
     <<"U+110F0", "U+110F1", "U+110F2", "U+110F3", "U+110F4", "U+110F5", "U+110F6", "U+110F7", "U+110F8", "U+110F9">>,
     <<"U+11136", "U+11137", "U+11138", "U+11139", "U+1113A", "U+1113B", "U+1113C", "U+1113D", "U+1113E", "U+1113F">>,
     <<"U+111D0", "U+111D1", "U+111D2", "U+111D3", "U+111D4", "U+111D5", "U+111D6", "U+111D7", "U+111D8", "U+111D9">>,
     <<"U+112F0", "U+112F1", "U+112F2", "U+112F3", "U+112F4", "U+112F5", "U+112F6", "U+112F7", "U+112F8", "U+112F9">>,
     <<"U+11450", "U+11451", "U+11452", "U+11453", "U+11454", "U+11455", "U+11456", "U+11457", "U+11458", "U+11459">>,
     <<"U+114D0", "U+114D1", "U+114D2", "U+114D3", "U+114D4", "U+114D5", "U+114D6", "U+114D7", "U+114D8", "U+114D9">>,
     <<"U+11650", "U+11651", "U+11652", "U+11653", "U+11654", "U+11655", "U+11656", "U+11657", "U+11658", "U+11659">>,
     <<"U+116C0", "U+116C1", "U+116C2", "U+116C3", "U+116C4", "U+116C5", "U+116C6", "U+116C7", "U+116C8", "U+116C9">>,
     <<"U+11730", "U+11731", "U+11732", "U+11733", "U+11734", "U+11735", "U+11736", "U+11737", "U+11738", "U+11739">>,
     <<"U+118E0", "U+118E1", "U+118E2", "U+118E3", "U+118E4", "U+118E5", "U+118E6", "U+118E7", "U+118E8", "U+118E9">>,
     <<"U+11950", "U+11951", "U+11952", "U+11953", "U+11954", "U+11955", "U+11956", "U+11957", "U+11958", "U+11959">>,
     <<"U+11C50", "U+11C51", "U+11C52", "U+11C53", "U+11C54", "U+11C55", "U+11C56", "U+11C57", "U+11C58", "U+11C59">>,
     <<"U+11D50", "U+11D51", "U+11D52", "U+11D53", "U+11D54", "U+11D55", "U+11D56", "U+11D57", "U+11D58", "U+11D59">>,
     <<"U+11DA0", "U+11DA1", "U+11DA2", "U+11DA3", "U+11DA4", "U+11DA5", "U+11DA6", "U+11DA7", "U+11DA8", "U+11DA9">>,
     <<"U+16A60", "U+16A61", "U+16A62", "U+16A63", "U+16A64", "U+16A65", "U+16A66", "U+16A67", "U+16A68", "U+16A69">>,
     <<"U+16AC0", "U+16AC1", "U+16AC2", "U+16AC3", "U+16AC4", "U+16AC5", "U+16AC6", "U+16AC7", "U+16AC8", "U+16AC9">>,
     <<"U+16B50", "U+16B51", "U+16B52", "U+16B53", "U+16B54", "U+16B55", "U+16B56", "U+16B57", "U+16B58", "U+16B59">>,
     <<"U+1D7CE", "U+1D7CF", "U+1D7D0", "U+1D7D1", "U+1D7D2", "U+1D7D3", "U+1D7D4", "U+1D7D5", "U+1D7D6", "U+1D7D7">>,
     <<"U+1D7D8", "U+1D7D9", "U+1D7DA", "U+1D7DB", "U+1D7DC", "U+1D7DD", "U+1D7DE", "U+1D7DF", "U+1D7E0", "U+1D7E1">>,
     <<"U+1D7E2", "U+1D7E3", "U+1D7E4", "U+1D7E5", "U+1D7E6", "U+1D7E7", "U+1D7E8", "U+1D7E9", "U+1D7EA", "U+1D7EB">>,
     <<"U+1D7EC", "U+1D7ED", "U+1D7EE", "U+1D7EF", "U+1D7F0", "U+1D7F1", "U+1D7F2", "U+1D7F3", "U+1D7F4", "U+1D7F5">>,
     <<"U+1D7F6", "U+1D7F7", "U+1D7F8", "U+1D7F9", "U+1D7FA", "U+1D7FB", "U+1D7FC", "U+1D7FD", "U+1D7FE", "U+1D7FF">>,
     <<"U+1E140", "U+1E141", "U+1E142", "U+1E143", "U+1E144", "U+1E145", "U+1E146", "U+1E147", "U+1E148", "U+1E149">>,
     <<"U+1E2F0", "U+1E2F1", "U+1E2F2", "U+1E2F3", "U+1E2F4", "U+1E2F5", "U+1E2F6", "U+1E2F7", "U+1E2F8", "U+1E2F9">>,
     <<"U+1E950", "U+1E951", "U+1E952", "U+1E953", "U+1E954", "U+1E955", "U+1E956", "U+1E957", "U+1E958", "U+1E959">>,
     <<"U+1FBF0", "U+1FBF1", "U+1FBF2", "U+1FBF3", "U+1FBF4", "U+1FBF5", "U+1FBF6", "U+1FBF7", "U+1FBF8", "U+1FBF9">>}

DecimalChars == UNION {{b[i] : i \in 1..10} : b \in DecimalBlocks}

(* the characters c with c.isdigit() that are no decimal digit: superscripts,
   circled digits and the like, which int() rejects *)
OtherDigits ==
    {"U+00B2", "U+00B3", "U+00B9", "U+1369", "U+136A", "U+136B", "U+136C",
     "U+136D", "U+136E", "U+136F", "U+1370", "U+1371", "U+19DA", "U+2070",
     "U+2074", "U+2075", "U+2076", "U+2077", "U+2078", "U+2079", "U+2080",
     "U+2081", "U+2082", "U+2083", "U+2084", "U+2085", "U+2086", "U+2087",
     "U+2088", "U+2089", "U+2460", "U+2461", "U+2462", "U+2463", "U+2464",
     "U+2465", "U+2466", "U+2467", "U+2468", "U+2474", "U+2475", "U+2476",
     "U+2477", "U+2478", "U+2479", "U+247A", "U+247B", "U+247C", "U+2488",
     "U+2489", "U+248A", "U+248B", "U+248C", "U+248D", "U+248E", "U+248F",
     "U+2490", "U+24EA", "U+24F5", "U+24F6", "U+24F7", "U+24F8", "U+24F9",
     "U+24FA", "U+24FB", "U+24FC", "U+24FD", "U+24FF", "U+2776", "U+2777",
     "U+2778", "U+2779", "U+277A", "U+277B", "U+277C", "U+277D", "U+277E",
     "U+2780", "U+2781", "U+2782", "U+2783", "U+2784", "U+2785", "U+2786",
     "U+2787", "U+2788", "U+278A", "U+278B", "U+278C", "U+278D", "U+278E",
     "U+278F", "U+2790", "U+2791", "U+2792", "U+10A40", "U+10A41", "U+10A42",
     "U+10A43", "U+10E60", "U+10E61", "U+10E62", "U+10E63", "U+10E64", "U+10E65",
     "U+10E66", "U+10E67", "U+10E68", "U+11052", "U+11053", "U+11054", "U+11055",
     "U+11056", "U+11057", "U+11058", "U+11059", "U+1105A", "U+1F100", "U+1F101",
     "U+1F102", "U+1F103", "U+1F104", "U+1F105", "U+1F106", "U+1F107", "U+1F108",
     "U+1F109", "U+1F10A"}

(* str.isdigit *)
IsDigit(c) == c \in DecimalChars \/ c \in OtherDigits

DigitVal(c) ==
    CASE c = "0" -> 0 [] c = "1" -> 1 [] c = "2" -> 2 [] c = "3" -> 3
      [] c = "4" -> 4 [] c = "5" -> 5 [] c = "6" -> 6 [] c = "7" -> 7
      [] c = "8" -> 8 [] c = "9" -> 9
      [] OTHER ->
            LET b == CHOOSE b \in DecimalBlocks : \E i \in 1..10 : b[i] = c
            IN  (CHOOSE i \in 1..10 : b[i] = c) - 1

RECURSIVE SeqsUpTo(_, _)
SeqsUpTo(S, n) ==
    IF n = 0 THEN {<<>>}
    ELSE LET shorter == SeqsUpTo(S, n - 1)
         IN  shorter \cup {Append(s, c) : s \in shorter, c \in S}

(* s with the characters of blanks dropped at both ends *)
StripOf(s, blanks) ==
    LET kept == {i \in 1..Len(s) : s[i] \notin blanks}
    IN  IF kept = {} THEN <<>>
        ELSE LET lo == CHOOSE i \in kept : \A j \in kept : i <= j
                 hi == CHOOSE i \in kept : \A j \in kept : j <= i
             IN  SubSeq(s, lo, hi)

(* str.strip() *)
Strip(s) == StripOf(s, Whitespace)

(* str.replace(c, '') *)
Remove(s, c) == SelectSeq(s, LAMBDA x : x # c)

(* str.split(): the maximal runs of non-space characters, in order *)
RECURSIVE Split(_)
Split(s) ==
    IF s = <<>> THEN <<>>
    ELSE IF IsSpace(Head(s)) THEN Split(Tail(s))
    ELSE LET stops == {i \in 1..Len(s) : IsSpace(s[i])}
             stop == IF stops = {} THEN Len(s) + 1
                     ELSE CHOOSE i \in stops : \A j \in stops : i <= j
         IN  <<SubSeq(s, 1, stop - 1)>> \o Split(SubSeq(s, stop, Len(s)))

RECURSIVE ToNat(_)
ToNat(ds) ==
    IF ds = <<>> THEN 0
    ELSE 10 * ToNat(SubSeq(ds, 1, Len(ds) - 1)) + DigitVal(ds[Len(ds)])

AllDecimal(s) == \A i \in 1..Len(s) : s[i] \in DecimalChars

HasSign(s) == s # <<>> /\ Head(s) \in {"-", "+"}
Unsigned(s) == IF HasSign(s) THEN Tail(s) ELSE s
SignOf(s) == IF s # <<>> /\ Head(s) = "-" THEN -1 ELSE 1

(* the digit-group underscores of a numeric literal: each one stands between
   two decimal digits *)
UnderscoresGroupDigits(s) ==
    \A i \in 1..Len(s) :
        s[i] = "_" => /\ 1 < i /\ i < Len(s)
                      /\ s[i - 1] \in DecimalChars
                      /\ s[i + 1] \in DecimalChars

(* int() refuses a literal of more than sys.int_info.default_max_str_digits
   digits *)
MaxStrDigits == 4300

(* int(s) of a text: None for the texts on which int raises ValueError,
   otherwise the value of the literal: surrounding blanks dropped, an
   optional sign, decimal digits in groups parted by single underscores. *)
PyInt(s) ==
    LET t == StripOf(s, NumericSpace)
        body == Unsigned(t)
        digs == Remove(body, "_")
    IN  IF /\ digs # <<>>
           /\ AllDecimal(digs)
           /\ UnderscoresGroupDigits(body)
           /\ Len(digs) <= MaxStrDigits
        THEN Some(SignOf(t) * ToNat(digs)) ELSE None

(* Natural numbers of any size, as sequences of limbs in base 2^15 with the
   least significant limb first and no zero limb at the top: the arithmetic
   under float(). *)
LimbBits == 15
Base == 32768

RECURSIVE Pow2(_)
Pow2(n) == IF n = 0 THEN 1 ELSE 2 * Pow2(n - 1)

Trim(a) ==
    LET nonzero == {i \in 1..Len(a) : a[i] # 0}
    IN  IF nonzero = {} THEN <<>>
        ELSE SubSeq(a, 1, CHOOSE i \in nonzero : \A j \in nonzero : j <= i)

LimbAt(a, i) == IF i <= Len(a) THEN a[i] ELSE 0

(* The carry chain of column sums: limb i of the result is
   (t[i] + carry in) % Base and its carry out is (t[i] + carry in) \div Base.
   The columns lo..hi are done in two halves, the carry of the lower half
   going into the upper one. *)
RECURSIVE Ripple(_, _, _, _)
Ripple(t, lo, hi, carry) ==
    IF lo > hi THEN [limbs |-> <<>>, carry |-> carry]
    ELSE IF lo = hi
    THEN [limbs |-> <<(t[lo] + carry) % Base>>,
          carry |-> (t[lo] + carry) \div Base]
    ELSE LET mid == (lo + hi) \div 2
             lower == Ripple(t, lo, mid, carry)
             upper == Ripple(t, mid + 1, hi, lower.carry)
         IN  [limbs |-> lower.limbs \o upper.limbs, carry |-> upper.carry]

Carried(t, carry) ==
    LET r == Ripple(t, 1, Len(t), carry)
    IN  IF r.carry = 0 THEN r.limbs ELSE Append(r.limbs, r.carry)

BAdd(a, b) ==
    LET n == IF Len(a) >= Len(b) THEN Len(a) ELSE Len(b)
    IN  Carried([i \in 1..n |-> LimbAt(a, i) + LimbAt(b, i)], 0)

(* a - b, for a >= b: a plus the complement of b plus one, the carry out of
   the top limb dropped *)
BSub(a, b) ==
    Trim(Ripple([i \in 1..Len(a) |-> a[i] + (Base - 1 - LimbAt(b, i))],
                1, Len(a), 1).limbs)

(* a >= b *)
BGeq(a, b) ==
    \/ Len(a) > Len(b)
    \/ /\ Len(a) = Len(b)
       /\ LET differ == {i \in 1..Len(a) : a[i] # b[i]}
          IN  \/ differ = {}
              \/ LET top == CHOOSE i \in differ : \A j \in differ : j <= i
                 IN  a[top] > b[top]

(* a * m + carry, for 0 < m < Base and 0 <= carry < Base *)
MulC(a, m, carry) == Carried([i \in 1..Len(a) |-> a[i] * m], carry)

(* a * Base^n *)
ShiftLimbs(a, n) == IF a = <<>> THEN <<>> ELSE [i \in 1..n |-> 0] \o a

(* a * 2^k *)
ShiftLeft(a, k) ==
    ShiftLimbs(MulC(a, Pow2(k % LimbBits), 0), k \div LimbBits)

(* a times the limbs lo..hi of b, each at its weight *)
RECURSIVE MulRange(_, _, _, _)
MulRange(a, b, lo, hi) ==
    IF lo = hi
    THEN (IF b[lo] = 0 THEN <<>> ELSE ShiftLimbs(MulC(a, b[lo], 0), lo - 1))
    ELSE LET mid == (lo + hi) \div 2
         IN  BAdd(MulRange(a, b, lo, mid), MulRange(a, b, mid + 1, hi))

BMul(a, b) ==
    IF a = <<>> \/ b = <<>> THEN <<>> ELSE MulRange(a, b, 1, Len(b))

(* 10^n *)
RECURSIVE Pow10(_)
Pow10(n) ==
    IF n = 0 THEN <<1>>
    ELSE IF n = 1 THEN <<10>>
    ELSE BMul(Pow10(n \div 2), Pow10(n - n \div 2))

(* the number a decimal digit text writes *)
RECURSIVE DigitsToB(_)
DigitsToB(ds) ==
    IF ds = <<>> THEN <<>>
    ELSE IF Len(ds) = 1 THEN Trim(<<DigitVal(ds[1])>>)
    ELSE LET mid == Len(ds) \div 2
         IN  BAdd(BMul(DigitsToB(SubSeq(ds, 1, mid)), Pow10(Len(ds) - mid)),
                  DigitsToB(SubSeq(ds, mid + 1, Len(ds))))

RECURSIVE BitLengthOfLimb(_)
BitLengthOfLimb(x) == IF x = 0 THEN 0 ELSE 1 + BitLengthOfLimb(x \div 2)

BitLength(a) ==
    IF a = <<>> THEN 0
    ELSE LimbBits * (Len(a) - 1) + BitLengthOfLimb(a[Len(a)])

(* the bit of weight 2^i *)
BitAt(a, i) == (a[i \div LimbBits + 1] \div Pow2(i % LimbBits)) % 2

(* the bits of a, most significant first *)
Bits(a) == [j \in 1..BitLength(a) |-> BitAt(a, BitLength(a) - j)]

(* the number a bit sequence writes, most significant bit first *)
RECURSIVE NatOfBits(_)
NatOfBits(bits) ==
    IF bits = <<>> THEN 0
    ELSE 2 * NatOfBits(SubSeq(bits, 1, Len(bits) - 1)) + bits[Len(bits)]

FromBits(bits) ==
    LET n == Len(bits)
    IN  [l \in 1..((n + LimbBits - 1) \div LimbBits) |->
            LET hi == n - LimbBits * (l - 1)
                lo == IF hi - LimbBits + 1 >= 1 THEN hi - LimbBits + 1 ELSE 1
            IN  NatOfBits(SubSeq(bits, lo, hi))]

(* A float is an IEEE 754 binary64 value.  A finite one is
   sign * m * 2^exp, the bits of m written most significant first, m odd
   (no bits for zero). *)
MantissaBits == 53
MinExp == -1074
MaxTopExp == 1023

Finite(sign, bits, exp) ==
    [kind |-> "finite", sign |-> sign, bits |-> bits, exp |-> exp]
Inf(sign) == [kind |-> "inf", sign |-> sign, bits |-> <<>>, exp |-> 0]
NaN == [kind |-> "nan", sign |-> 1, bits |-> <<>>, exp |-> 0]

(* the int 0 of line 111, which Python's arithmetic and comparisons take for
   the float 0.0 *)
Zero == Finite(1, <<>>, 0)

(* sign * bits * 2^exp with the low zero bits moved into the exponent; inf
   beyond the largest exponent *)
Canon(sign, bits, exp) ==
    LET ones == {i \in 1..Len(bits) : bits[i] = 1}
    IN  IF ones = {} THEN Finite(sign, <<>>, 0)
        ELSE LET last == CHOOSE i \in ones : \A j \in ones : j <= i
             IN  IF exp + Len(bits) - 1 > MaxTopExp THEN Inf(sign)
                 ELSE Finite(sign, SubSeq(bits, 1, last),
                             exp + Len(bits) - last)

(* bits + 1, for bits that start with a 1 or are empty *)
Increment(bits) ==
    LET zeros == {i \in 1..Len(bits) : bits[i] = 0}
    IN  IF zeros = {} THEN <<1>> \o [i \in 1..Len(bits) |-> 0]
        ELSE LET last == CHOOSE i \in zeros : \A j \in zeros : j <= i
             IN  [i \in 1..Len(bits) |->
                    IF i < last THEN bits[i] ELSE IF i = last THEN 1 ELSE 0]

(* The float nearest to sign * (bits * 2^exp + rest), ties to the even
   mantissa: bits start with a 1, most significant first, and rest is a
   remainder below the last bit that is zero exactly when sticky is false
   (bits has more than 54 bits when it is true).  The mantissa keeps 53
   bits, fewer below the smallest normal number. *)
RoundToDouble(sign, bits, exp, sticky) ==
    IF bits = <<>> THEN Finite(sign, <<>>, 0)
    ELSE LET n == Len(bits)
             top == exp + n - 1
             keep == IF top - (MantissaBits - 1) >= MinExp THEN MantissaBits
                     ELSE top - MinExp + 1
         IN  IF n <= keep THEN Canon(sign, bits, exp)
             ELSE LET kept == IF keep >= 1 THEN SubSeq(bits, 1, keep)
                              ELSE <<>>
                      half == keep >= 0 /\ bits[keep + 1] = 1
                      below == \/ sticky
                               \/ \E i \in (keep + 2)..n :
                                     i >= 1 /\ bits[i] = 1
                      odd == keep >= 1 /\ kept[keep] = 1
                      up == half /\ (below \/ odd)
                  IN  Canon(sign, IF up THEN Increment(kept) ELSE kept,
                            top - keep + 1)

(* Long division of r by d in base 2^15.  QuotientLimb is the largest limb
   x with x * ds <= r, found bit by bit from the top; DivLimbs takes one
   limb of the quotient a step, from the limb of weight Base^s down, q the
   quotient so far. *)
RECURSIVE QuotientLimb(_, _, _, _)
QuotientLimb(r, ds, bit, x) ==
    IF bit < 0 THEN x
    ELSE IF BGeq(r, MulC(ds, x + Pow2(bit), 0))
    THEN QuotientLimb(r, ds, bit - 1, x + Pow2(bit))
    ELSE QuotientLimb(r, ds, bit - 1, x)

RECURSIVE DivLimbs(_, _, _, _)
DivLimbs(r, d, s, q) ==
    IF s < 0 THEN [quotient |-> Trim(q), sticky |-> r # <<>>]
    ELSE LET ds == ShiftLimbs(d, s)
             x == QuotientLimb(r, ds, LimbBits - 1, 0)
             rest == IF x = 0 THEN r ELSE BSub(r, MulC(ds, x, 0))
         IN  DivLimbs(rest, d, s - 1, <<x>> \o q)

(* The quotient of n by d with at least 55 bits: n is scaled by 2^shift
   before the division. *)
QuotientBits == 55

LongDivide(r, d) == DivLimbs(r, d, Len(r) - Len(d), <<>>)

DivideShifted(n, d, shift) ==
    [q |-> LongDivide(ShiftLeft(n, shift), d), shift |-> shift]

Divide(n, d) ==
    DivideShifted(n, d,
                  IF BitLength(d) + QuotientBits > BitLength(n)
                  THEN BitLength(d) + QuotientBits - BitLength(n) ELSE 0)

RoundScaled(sign, x) ==
    RoundToDouble(sign, Bits(x.q.quotient), -x.shift, x.q.sticky)

(* The float of the decimal  sign * digs * 10^e10  (digs a digit text).  A
   number of at least 10^310 is beyond every float and reads as inf, one
   below 10^-330 is below half the smallest float and reads as zero. *)
MaxDecimalExp == 310
MinDecimalExp == -330

DropZeros(ds) ==
    LET nonzero == {i \in 1..Len(ds) : DigitVal(ds[i]) # 0}
    IN  IF nonzero = {} THEN <<>>
        ELSE SubSeq(ds, CHOOSE i \in nonzero : \A j \in nonzero : i <= j,
                    Len(ds))

(* n * 10^e10 for e10 >= 0 and n / 10^-e10 for e10 < 0, p the power of ten *)
ScaleByPow10(sign, n, e10, p) ==
    RoundScaled(sign,
                IF e10 >= 0
                THEN [q |-> [quotient |-> BMul(n, p), sticky |-> FALSE],
                      shift |-> 0]
                ELSE Divide(n, p))

SignificantToDouble(sign, sig, e10) ==
    IF sig = <<>> THEN Finite(sign, <<>>, 0)
    ELSE IF Len(sig) + e10 > MaxDecimalExp THEN Inf(sign)
    ELSE IF Len(sig) + e10 < MinDecimalExp THEN Finite(sign, <<>>, 0)
    ELSE ScaleByPow10(sign, DigitsToB(sig), e10,
                      Pow10(IF e10 >= 0 THEN e10 ELSE -e10))

DecimalToDouble(sign, digs, e10) ==
    SignificantToDouble(sign, DropZeros(digs), e10)

Lower(c) ==
    CASE c = "I" -> "i" [] c = "N" -> "n" [] c = "F" -> "f" [] c = "T" -> "t"
      [] c = "Y" -> "y" [] c = "A" -> "a" [] OTHER -> c

LowerText(s) == [i \in 1..Len(s) |-> Lower(s[i])]

(* float(s): None for the texts on which float raises ValueError, otherwise
   the value of the literal.  Surrounding blanks are dropped; then come an
   optional sign and either inf, infinity or nan in any case, or decimal
   digits with at most one point and at least one digit, digit groups parted
   by single underscores, and an optional exponent: e or E, an optional
   sign, digits. *)

(* the literal without underscores, parted at its first e or E *)
SplitExponent(body) ==
    LET es == {i \in 1..Len(body) : body[i] \in {"e", "E"}}
        first == IF es = {} THEN Len(body) + 1
                 ELSE CHOOSE i \in es : \A j \in es : i <= j
    IN  [mantissa |-> SubSeq(body, 1, first - 1),
         has_exponent |-> es # {},
         exponent |-> SubSeq(body, first + 1, Len(body))]

ValidMantissa(m) ==
    /\ Cardinality({i \in 1..Len(m) : m[i] = "."}) <= 1
    /\ Remove(m, ".") # <<>>
    /\ AllDecimal(Remove(m, "."))

ValidExponent(x) == Unsigned(x) # <<>> /\ AllDecimal(Unsigned(x))

(* the count of digits after the point *)
FractionDigits(m) ==
    LET points == {i \in 1..Len(m) : m[i] = "."}
    IN  IF points = {} THEN 0 ELSE Len(m) - (CHOOSE i \in points : TRUE)

FloatOfParts(sign, parts) ==
    IF /\ ValidMantissa(parts.mantissa)
       /\ parts.has_exponent => ValidExponent(parts.exponent)
    THEN Some(DecimalToDouble(
                  sign, Remove(parts.mantissa, "."),
                  (IF parts.has_exponent
                   THEN SignOf(parts.exponent) * ToNat(Unsigned(parts.exponent))
                   ELSE 0) - FractionDigits(parts.mantissa)))
    ELSE None

FloatOfWord(sign, body, word) ==
    IF word \in {<<"i", "n", "f">>,
                 <<"i", "n", "f", "i", "n", "i", "t", "y">>}
    THEN Some(Inf(sign))
    ELSE IF word = <<"n", "a", "n">> THEN Some(NaN)
    ELSE IF UnderscoresGroupDigits(body)
    THEN FloatOfParts(sign, SplitExponent(Remove(body, "_")))
    ELSE None

FloatOfStripped(t) == FloatOfWord(SignOf(t), Unsigned(t), LowerText(Unsigned(t)))

PyFloat(s) == FloatOfStripped(StripOf(s, NumericSpace))

(* a - b of two floats.  The mantissas are brought to the smaller exponent e
   as x and y; the result has the sign of the larger magnitude, +0.0 when
   the two are equal. *)
RoundLimbs(sign, magnitude, e) == RoundToDouble(sign, Bits(magnitude), e, FALSE)

SubMagnitudes(sa, sb, x, y, e) ==
    RoundLimbs(IF sa # sb THEN sa
               ELSE IF x = y THEN 1
               ELSE IF BGeq(x, y) THEN sa ELSE -sa,
               IF sa # sb THEN BAdd(x, y)
               ELSE IF BGeq(x, y) THEN BSub(x, y) ELSE BSub(y, x),
               e)

SubAligned(a, b, e) ==
    SubMagnitudes(a.sign, b.sign,
                  ShiftLeft(FromBits(a.bits), a.exp - e),
                  ShiftLeft(FromBits(b.bits), b.exp - e), e)

FloatSub(a, b) ==
    IF a.kind = "nan" \/ b.kind = "nan" THEN NaN
    ELSE IF a.kind = "inf"
    THEN (IF b.kind = "inf" /\ b.sign = a.sign THEN NaN ELSE Inf(a.sign))
    ELSE IF b.kind = "inf" THEN Inf(-b.sign)
    ELSE SubAligned(a, b, IF a.exp <= b.exp THEN a.exp ELSE b.exp)

(* int(x) of a finite float: the fraction is dropped, rounding toward zero *)
IntOfFloat(x) ==
    IF x.exp >= 0 THEN x.sign * NatOfBits(x.bits) * Pow2(x.exp)
    ELSE x.sign * NatOfBits(SubSeq(x.bits, 1, Len(x.bits) + x.exp))

-----------------------------------------------------------------------------
(* _extract_product_details *)

SelOriginalPrice == ".a-price.a-text-price"
SelCurrentPrice == ".a-price-whole"
SelRating == ".a-icon-alt"
SelReviewCount == ".a-size-base"
SelAmountBought == ".a-size-base.a-color-secondary"
SelName == "h2[aria-label] > span"

(* safe_find_text: the element's stripped text, or the default when the
   lookup raises *)
safe_find_text(el, selector, default) ==
    IF selector \in DOMAIN el THEN Strip(el[selector]) ELSE default

(* safe_find_rating: the element's innerText as it is, or the default *)
safe_find_rating(el, selector, default) ==
    IF selector \in DOMAIN el THEN el[selector] ELSE default

(* lines 107-108: the conditional expression.  float is not in a try, so
   the call raises ValueError when the text is no float literal: the outcome
   of a step that may raise is a record with the field raised. *)
Cleaned(text) == Remove(Remove(text, "$"), ",")

Parsed(p) == [raised |-> p = None, value |-> p]

PriceOf(text) ==
    IF text # NA THEN Parsed(PyFloat(Cleaned(text)))
    ELSE [raised |-> FALSE, value |-> None]

(* RatingOf with the split left out: float(rating_text) *)
RatingOfWholeText(rating_text) ==
    IF rating_text # NA THEN PyFloat(rating_text) ELSE None

(* lines 114-117 *)
RatingOf(rating_text) ==
    IF rating_text # NA
    THEN LET tokens == Split(rating_text)
         IN  IF tokens = <<>> THEN None       \* IndexError
             ELSE PyFloat(tokens[1])            \* None on ValueError
    ELSE None

(* lines 118-122 *)
ReviewCountOf(review_count_text) ==
    IF review_count_text # NA
    THEN LET parsed == PyInt(Remove(review_count_text, ","))
         IN  IF parsed = None THEN 0 ELSE parsed[1]
    ELSE 0

(* line 126: int() raises OverflowError for an infinity and ValueError for
   a nan, and nothing catches it *)
IntOutcome(x) ==
    IF x.kind = "inf" THEN [raised |-> TRUE, exc |-> "OverflowError"]
    ELSE IF x.kind = "nan" THEN [raised |-> TRUE, exc |-> "ValueError"]
    ELSE [raised |-> FALSE, value |-> Some(IntOfFloat(x))]

(* lines 123-126 *)
DiscountOf(original_price, current_price) ==
    IF original_price # None /\ current_price # None
    THEN IntOutcome(FloatSub(original_price[1], current_price[1]))
    ELSE [raised |-> FALSE, value |-> None]

(* lines 128-134 *)
AmountBoughtOf(amount_bought_raw) ==
    LET plus == {i \in 1..Len(amount_bought_raw) : amount_bought_raw[i] = "+"}
        amount_bought ==
            IF plus # {}
            THEN Strip(SubSeq(amount_bought_raw, 1,
                              (CHOOSE i \in plus : \A j \in plus : i <= j) - 1))
            ELSE amount_bought_raw
        parsed == PyInt(SelectSeq(amount_bought, IsDigit))
    IN  IF parsed = None THEN 0 ELSE parsed[1]        \* 0 on ValueError

(* lines 136-143, once the discount is computed *)
Record(el, current_price, discount) ==
    IF discount.raised THEN [raised |-> TRUE, exc |-> discount.exc]
    ELSE [raised |-> FALSE,
          value |->
            [product_name |-> safe_find_text(el, SelName, NA),
             price |-> current_price[1],
             rating |-> RatingOf(safe_find_rating(el, SelRating, NA)),
             discount |-> discount.value,
             review_count |->
                 ReviewCountOf(safe_find_text(el, SelReviewCount, ZeroText)),
             amount_bought |->
                 AmountBoughtOf(safe_find_text(el, SelAmountBought, NA))]]

(* lines 110-111 and 123-126, once the two prices are parsed *)
WithPrices(el, original_price, current_price) ==
    Record(el, current_price, DiscountOf(original_price, current_price))

(* The call: the outcome is [raised |-> TRUE, exc |-> the exception] or
   [raised |-> FALSE, value |-> the record returned]. *)
Priced(el, original, current) ==
    IF original.raised \/ current.raised
    THEN [raised |-> TRUE, exc |-> "ValueError"]
    ELSE WithPrices(el, original.value,
                    IF current.value = None THEN Some(Zero) ELSE current.value)

ExtractProductDetails(el) ==
    Priced(el, PriceOf(safe_find_text(el, SelOriginalPrice, NA)),
               PriceOf(safe_find_text(el, SelCurrentPrice, NA)))

-----------------------------------------------------------------------------
(* The inputs of the record assembly. *)

(* One sub-element of a fragment: present with a text, or missing. *)
Field(selector, maybe_text) ==
    IF maybe_text = None THEN <<>> ELSE selector :> maybe_text[1]

Maybe(texts) == {None} \cup {Some(t) : t \in texts}

PriceChars == {"0", "5", "$", ",", ".", " ", "a"}
ReviewChars == {"0", "5", ",", "(", ")", "-", " "}
RatingChars == {"0", "5", ".", " ", "a", "-"}

(* Texts beyond the alphabets: prices whose difference is inexact in binary,
   the literals float() and int() read besides plain digits, and blanks and
   digits outside ASCII. *)
SpecialPrices ==
    {<<"1", "9", ".", "9", "9">>, <<"9", ".", "9", "9">>,
     <<"2", ".", "3">>, <<"0", ".", "3">>,
     <<"$", "1", ",", "2", "3", "4", ".", "5", "6">>,
     <<"1", "e", "3">>, <<"1", "_", "0">>, <<"i", "n", "f">>,
     <<"n", "a", "n">>, <<"$", "\t", "5">>, <<"$", "U+001C", "5">>,
     <<"U+0665">>}
SpecialReviews ==
    {<<"(", "8", "7", ")">>, <<"1", ",", "2", "3", "4">>,
     <<"1", "_", "0">>, <<"1", "_", "_", "0">>, <<",", "\t", "5">>,
     <<"U+0661", "U+0662">>, <<"5", "U+00B2">>, <<",", "U+001F", "5">>}
SpecialRatings ==
    {<<"4", ".", "5", " ", "o", "u", "t", " ", "o", "f", " ", "5", " ", "s",
       "t", "a", "r", "s">>,
     <<"4", ".", "5", "\n", "o", "u", "t">>, <<"\t", "5", "U+00A0", "a">>,
     <<"5", "U+001F", "a">>, <<"1", "e", "3">>, <<"1", "_", "0">>,
     <<"n", "a", "n">>, <<"-", "I", "n", "f", "i", "n", "i", "t", "y">>,
     <<"U+0664", ".", "U+0665">>}

PriceTexts == SeqsUpTo(PriceChars, MaxPriceLen) \cup {NA} \cup SpecialPrices
ReviewTexts ==
    SeqsUpTo(ReviewChars, MaxReviewLen) \cup {NA} \cup SpecialReviews
RatingTexts ==
    SeqsUpTo(RatingChars, MaxRatingLen) \cup {NA} \cup SpecialRatings

AmountChars == {"0", "5", "+", " ", "K", "U+00B2", "U+0665"}
AmountTexts ==
    SeqsUpTo(AmountChars, MaxAmountLen)
        \cup {NA, <<"5", "0", "+", " ", "b", "o", "u", "g", "h", "t">>,
              <<"1", "K", "+", "\t", "b", "o", "u", "g", "h", "t">>,
              <<"\n", "5", "U+00A0", "+">>}
NameTexts == {<<"W", "i", "d", "g", "e", "t">>, <<"\t", "5">>, <<>>, NA}

NameText == <<"W", "i", "d", "g", "e", "t">>
AmountText == <<"5", "0", "+", " ", "b", "o", "u", "g", "h", "t">>

(* The other sub-elements of a fragment: all missing, or all present. *)
OtherFields(selectors) ==
    LET all == (SelName :> NameText) @@ (SelAmountBought :> AmountText)
               @@ (SelOriginalPrice :> <<"5", "0">>)
               @@ (SelCurrentPrice :> <<"5">>)
               @@ (SelRating :> <<"5", " ", "a">>)
               @@ (SelReviewCount :> <<"5", ",", "0", "0", "0">>)
    IN  {<<>>, [s \in selectors |-> all[s]]}

-----------------------------------------------------------------------------
(* One call of _extract_product_details on the fragment. *)

ScrapeIdle ==
    /\ pc = "idle" /\ max_pages = 0 /\ page = 0 /\ product_elements = <<>>
    /\ idx = 0 /\ products = <<>> /\ driver = "none" /\ events = <<>>
    /\ loaded = <<>> /\ returned = None

SaveIdle ==
    /\ spc = "idle" /\ to_save = <<>> /\ si = 0 /\ step = 0
    /\ committed = <<>> /\ pending = <<>> /\ next_id = 0

InitExtract(fragments) ==
    /\ fragment \in fragments
    /\ result = None
    /\ ScrapeIdle
    /\ SaveIdle

Extract ==
    /\ pc = "idle" /\ spc = "idle"
    /\ result = None
    /\ result' = Some(ExtractProductDetails(fragment))
    /\ UNCHANGED <<fragment, scrapeVars, saveVars>>

(* Fragments whose two price elements range over the price texts. *)
InitPrices ==
    InitExtract(
        {Field(SelOriginalPrice, o) @@ Field(SelCurrentPrice, c) @@ rest :
            o \in Maybe(PriceTexts), c \in Maybe(PriceTexts),
            rest \in OtherFields({SelName, SelAmountBought, SelRating,
                                  SelReviewCount})})

(* Fragments whose review-count element ranges over the review texts. *)
InitReviews ==
    InitExtract(
        {Field(SelReviewCount, r) @@ rest :
            r \in Maybe(ReviewTexts),
            rest \in OtherFields({SelName, SelAmountBought, SelRating,
                                  SelOriginalPrice, SelCurrentPrice})})

(* Fragments whose rating element ranges over the rating texts. *)
InitRatings ==
    InitExtract(
        {Field(SelRating, r) @@ rest :
            r \in Maybe(RatingTexts),
            rest \in OtherFields({SelName, SelAmountBought, SelReviewCount,
                                  SelOriginalPrice, SelCurrentPrice})})

(* Fragments whose amount and name elements range over their texts. *)
InitAmounts ==
    InitExtract(
        {Field(SelAmountBought, a) @@ Field(SelName, n) @@ rest :
            a \in Maybe(AmountTexts), n \in Maybe(NameTexts),
            rest \in OtherFields({SelRating, SelReviewCount,
                                  SelOriginalPrice, SelCurrentPrice})})

SpecPrices == InitPrices /\ [][Extract]_vars
SpecReviews == InitReviews /\ [][Extract]_vars
SpecRatings == InitRatings /\ [][Extract]_vars
SpecAmounts == InitAmounts /\ [][Extract]_vars

Returned == result # None /\ ~result[1].raised
Raised == result # None /\ result[1].raised
Present(selector) == selector \in DOMAIN fragment

-----------------------------------------------------------------------------
(* scrape_amazon_products *)

(* The fragments a result page may hold: one with every sub-element, one with
   none, and one whose original price text is no number. *)
FullFragment ==
    (SelName :> NameText) @@ (SelOriginalPrice :> <<"$", "5", "0">>)
    @@ (SelCurrentPrice :> <<"5", ".", "5">>)
    @@ (SelRating :> <<"5", " ", "a">>)
    @@ (SelReviewCount :> <<"5", ",", "0", "0", "0">>)
    @@ (SelAmountBought :> AmountText)
EmptyFragment == <<>>
BadPriceFragment == (SelName :> NameText) @@ (SelOriginalPrice :> <<"a">>)
PageFragments == {FullFragment, EmptyFragment, BadPriceFragment}

(* What presence_of_all_elements_located may return: a non-empty list. *)
ElementLists == SeqsUpTo(PageFragments, MaxElements) \ {<<>>}

(* range(1, max_pages + 1): where the page loop goes with loop variable p *)
LoopHead(p) == IF p <= max_pages THEN "get" ELSE "finally"

InitScrape ==
    /\ pc = "start"
    /\ max_pages \in 0..MaxPages
    /\ page = 0 /\ product_elements = <<>> /\ idx = 0
    /\ products = <<>>
    /\ driver = "none"
    /\ events = <<>> /\ loaded = <<>>
    /\ returned = None
    /\ fragment = <<>> /\ result = None
    /\ SaveIdle

(* line 56, _setup_webdriver (lines 25-40): outside the try, so a failure
   propagates.  The browser is created and configured; or creating it raises
   (lines 35-36); or it is created and set_page_load_timeout raises (line
   39), which leaves the call with the browser open. *)
SetupWebdriver ==
    /\ pc = "start"
    /\ \/ /\ driver' = "open"
          /\ events' = Append(events, [op |-> "create"])
          /\ page' = 1
          /\ pc' = LoopHead(1)
       \/ /\ pc' = "raised"
          /\ UNCHANGED <<driver, events, page>>
       \/ /\ driver' = "open"
          /\ events' = Append(events, [op |-> "create"])
          /\ pc' = "raised"
          /\ UNCHANGED page
    /\ UNCHANGED <<max_pages, product_elements, idx, products, loaded,
                   returned, extractVars, saveVars>>

(* lines 60-61: driver.get(url) loads the page or raises *)
DriverGet ==
    /\ pc = "get"
    /\ events' = Append(events, [op |-> "get", page |-> page])
    /\ \/ pc' = "wait"
       \/ pc' = "except"
    /\ UNCHANGED <<max_pages, page, product_elements, idx, products, driver,
                   loaded, returned, extractVars, saveVars>>

(* lines 64-68: the wait returns the result elements or times out *)
WaitForElements ==
    /\ pc = "wait"
    /\ \/ \E els \in ElementLists :
            /\ product_elements' = els
            /\ loaded' = Append(loaded, els)
            /\ idx' = 1
            /\ pc' = "extract"
       \/ /\ pc' = "except"
          /\ UNCHANGED <<product_elements, loaded, idx>>
    /\ UNCHANGED <<max_pages, page, products, driver, events, returned,
                   extractVars, saveVars>>

(* ExtractFragment without the inner try/except: a fragment's failure reaches
   the outer handler *)
ExtractFragmentUnguarded ==
    /\ pc = "extract"
    /\ LET product_data == ExtractProductDetails(product_elements[idx])
       IN  IF product_data.raised
           THEN /\ pc' = "except"
                /\ UNCHANGED <<products, idx, page>>
           ELSE /\ products' = Append(products, product_data.value)
                /\ IF idx < Len(product_elements)
                   THEN /\ idx' = idx + 1
                        /\ UNCHANGED <<page, pc>>
                   ELSE /\ page' = page + 1
                        /\ pc' = LoopHead(page + 1)
                        /\ UNCHANGED idx
    /\ UNCHANGED <<max_pages, product_elements, driver, events, loaded,
                   returned, extractVars, saveVars>>

(* lines 70-75: one iteration of the fragment loop, with its try/except *)
ExtractFragment ==
    /\ pc = "extract"
    /\ LET product_data == ExtractProductDetails(product_elements[idx])
       IN  products' = IF product_data.raised THEN products
                       ELSE Append(products, product_data.value)
    /\ IF idx < Len(product_elements)
       THEN /\ idx' = idx + 1
            /\ UNCHANGED <<page, pc>>
       ELSE /\ page' = page + 1
            /\ pc' = LoopHead(page + 1)
            /\ UNCHANGED idx
    /\ UNCHANGED <<max_pages, product_elements, driver, events, loaded,
                   returned, extractVars, saveVars>>

(* lines 77-78: the outer handler logs the failure *)
ExceptHandler ==
    /\ pc = "except"
    /\ events' = Append(events, [op |-> "error", collected |-> products])
    /\ pc' = "finally"
    /\ UNCHANGED <<max_pages, page, product_elements, idx, products, driver,
                   loaded, returned, extractVars, saveVars>>

(* lines 79-80 *)
Finally ==
    /\ pc = "finally"
    /\ driver' = "quit"
    /\ events' = Append(events, [op |-> "quit"])
    /\ pc' = "return"
    /\ UNCHANGED <<max_pages, page, product_elements, idx, products, loaded,
                   returned, extractVars, saveVars>>

(* line 82 *)
Return ==
    /\ pc = "return"
    /\ returned' = Some(products)
    /\ pc' = "done"
    /\ UNCHANGED <<max_pages, page, product_elements, idx, products, driver,
                   events, loaded, extractVars, saveVars>>

Next ==
    \/ SetupWebdriver
    \/ DriverGet
    \/ WaitForElements
    \/ ExtractFragment
    \/ ExceptHandler
    \/ Finally
    \/ Return

Spec == InitScrape /\ [][Next]_vars

-----------------------------------------------------------------------------
(* save_to_database *)

(* dict.get(key, default) *)
Get(product, key, default) ==
    IF key \in DOMAIN product THEN product[key] ELSE default

EmptyTables == [products |-> <<>>, reviews |-> <<>>, sales |-> <<>>]

(* The rows the database holds before the call. *)
PriorTables ==
    [products |-> <<[Product_Id |-> 1, Product_Name |-> <<"o", "l", "d">>,
                     Price |-> Zero, Discount |-> None]>>,
     reviews |-> <<[Product_Id |-> 1, Rating |-> None, Review_Count |-> 0]>>,
     sales |-> <<[Product_Id |-> 1, Amount_Bought |-> 0]>>]

(* The product dicts a caller may pass: two scraped records, a dict with the
   name only, and a dict without "product_name". *)
ScrapedFull == ExtractProductDetails(FullFragment).value
ScrapedEmpty == ExtractProductDetails(EmptyFragment).value
NameOnly == [product_name |-> NameText]
Nameless == [price |-> Zero, review_count |-> 5]
ProductDicts == {ScrapedFull, ScrapedEmpty, NameOnly, Nameless}

InitSave ==
    /\ spc = "start"
    /\ to_save \in SeqsUpTo(ProductDicts, MaxProducts)
    /\ si = 0 /\ step = 0
    /\ committed = PriorTables
    /\ pending = EmptyTables
    /\ next_id = Len(PriorTables.products) + 1
    /\ fragment = <<>> /\ result = None
    /\ ScrapeIdle

(* The transaction's rows become visible. *)
CommitTx(db, tx) ==
    [products |-> db.products \o tx.products,
     reviews |-> db.reviews \o tx.reviews,
     sales |-> db.sales \o tx.sales]

(* ConnectionExitOnError for a connection in autocommit mode: the rows
   inserted before the failure stay *)
KeepRowsOnError(db, tx) == CommitTx(db, tx)

(* line 149: an exception leaving the "with connection" block rolls the
   transaction back; the database is what it was *)
ConnectionExitOnError(db, tx) == db

(* where the product loop goes after the last execute of product i *)
AfterProduct(i) == IF i < Len(to_save) THEN "insert" ELSE "commit"

(* an execute call fails with a psycopg2.Error: the block is left, the
   handler of line 207 logs it *)
DatabaseError ==
    /\ committed' = ConnectionExitOnError(committed, pending)
    /\ pending' = EmptyTables
    /\ spc' = "db_error"
    /\ UNCHANGED <<si, step, next_id>>

(* line 149: connect, or fail to *)
Connect ==
    /\ spc = "start"
    /\ \/ /\ spc' = AfterProduct(0)
          /\ si' = 1
          /\ step' = 1
       \/ /\ spc' = "db_error"
          /\ UNCHANGED <<si, step>>
    /\ UNCHANGED <<to_save, committed, pending, next_id, extractVars,
                   scrapeVars>>

(* lines 167-175: product["product_name"] raises KeyError, which is no
   psycopg2.Error and leaves the function *)
InsertProduct ==
    /\ spc = "insert" /\ step = 1
    /\ LET product == to_save[si]
       IN  IF "product_name" \notin DOMAIN product
           THEN /\ committed' = ConnectionExitOnError(committed, pending)
                /\ pending' = EmptyTables
                /\ spc' = "raised"
                /\ UNCHANGED <<si, step, next_id>>
           ELSE \/ /\ pending' =
                        [pending EXCEPT !.products = Append(@,
                            [Product_Id |-> next_id,
                             Product_Name |-> product["product_name"],
                             Price |-> Get(product, "price", Zero),
                             Discount |-> Get(product, "discount", Some(0))])]
                   /\ next_id' = next_id + 1
                   /\ step' = 2
                   /\ UNCHANGED <<spc, si, committed>>
                \/ DatabaseError
    /\ UNCHANGED <<to_save, extractVars, scrapeVars>>

(* cursor.fetchone()[0] of the product just inserted *)
ProductId == pending.products[Len(pending.products)].Product_Id

(* lines 177-184 and, again, lines 186-193 *)
InsertReview ==
    /\ spc = "insert" /\ step \in {2, 3}
    /\ LET product == to_save[si]
       IN  \/ /\ pending' =
                    [pending EXCEPT !.reviews = Append(@,
                        [Product_Id |-> ProductId,
                         Rating |-> Get(product, "rating", None),
                         Review_Count |-> Get(product, "review_count", 0)])]
              /\ step' = step + 1
              /\ UNCHANGED <<spc, si, committed, next_id>>
           \/ DatabaseError
    /\ UNCHANGED <<to_save, extractVars, scrapeVars>>

(* lines 195-201 *)
InsertSales ==
    /\ spc = "insert" /\ step = 4
    /\ LET product == to_save[si]
       IN  \/ /\ pending' =
                    [pending EXCEPT !.sales = Append(@,
                        [Product_Id |-> ProductId,
                         Amount_Bought |-> Get(product, "amount_bought", 0)])]
              /\ spc' = AfterProduct(si)
              /\ si' = si + 1
              /\ step' = 1
              /\ UNCHANGED <<committed, next_id>>
           \/ DatabaseError
    /\ UNCHANGED <<to_save, extractVars, scrapeVars>>

(* lines 203-206: connection.commit(), then the success message *)
Commit ==
    /\ spc = "commit"
    /\ \/ /\ committed' = CommitTx(committed, pending)
          /\ pending' = EmptyTables
          /\ spc' = "saved"
          /\ UNCHANGED <<si, step, next_id>>
       \/ DatabaseError
    /\ UNCHANGED <<to_save, extractVars, scrapeVars>>

NextSave ==
    \/ Connect
    \/ InsertProduct
    \/ InsertReview
    \/ InsertSales
    \/ Commit

SpecSave == InitSave /\ [][NextSave]_vars

-----------------------------------------------------------------------------
(* Properties of the record assembly. *)

AsciiDigits == {"0", "1", "2", "3", "4", "5", "6", "7", "8", "9"}

RecordFields ==
    {"product_name", "price", "rating", "discount", "review_count",
     "amount_bought"}

(* The text safe_find_text hands on for a selector that matched. *)
FoundText(selector) == Strip(fragment[selector])

(* The price a price element stands for: none when the element is missing,
   reads "N/A", or is no number once "$" and "," are removed. *)
NumberOf(selector) ==
    IF ~Present(selector) \/ FoundText(selector) = NA THEN None
    ELSE PyFloat(Cleaned(FoundText(selector)))

(* floor of a finite float: below int(x) when x is negative and no integer *)
Floor(x) ==
    IF x.sign = -1 /\ x.exp < 0 THEN IntOfFloat(x) - 1 ELSE IntOfFloat(x)

(* C1: whatever sub-elements the fragment has and whatever their texts are,
   the call returns a record with all six fields and does not raise. *)
C1_NeverFails ==
    result # None =>
        /\ ~result[1].raised
        /\ DOMAIN result[1].value = RecordFields

(* C3: in a returned record the discount is defined exactly when both the
   original and the current price were found and parsed, and then it is
   floor(original_price - current_price). *)
C3_DiscountInvariant ==
    Returned =>
        LET o == NumberOf(SelOriginalPrice)
            c == NumberOf(SelCurrentPrice)
            d == result[1].value.discount
        IN  /\ (d # None) <=> (o # None /\ c # None)
            /\ (d # None /\ o # None /\ c # None) =>
                    d[1] = Floor(FloatSub(o[1], c[1]))

(* C4: in a returned record review_count is an integer >= 0, whatever the
   review text is. *)
C4_ReviewCountNonNegative ==
    Returned => result[1].value.review_count \in Nat

(* C5: price parsing is total: a price text with non-numeric residue gives an
   absent price, not an error; a numeric current price text gives that number
   as the record's price; without a parsed original price there is no
   discount. *)
C5_PriceParsingTotal ==
    result # None =>
        /\ ~result[1].raised
        /\ NumberOf(SelCurrentPrice) # None =>
                result[1].value.price = NumberOf(SelCurrentPrice)[1]
        /\ NumberOf(SelOriginalPrice) = None =>
                result[1].value.discount = None

(* C6: the review count is the integer formed by the digits of the review
   text, every other character removed, and 0 when the text has no digit or
   the element is missing. *)
C6_DigitsOfReviewText ==
    Returned =>
        LET digs == IF Present(SelReviewCount)
                    THEN SelectSeq(fragment[SelReviewCount],
                                   LAMBDA ch : ch \in AsciiDigits)
                    ELSE <<>>
        IN  result[1].value.review_count =
                IF digs = <<>> THEN 0 ELSE ToNat(digs)

(* The first decimal-number substring of a text: it starts at the first
   digit, or at the point or minus sign that stands right before a digit,
   and runs over the digits, with one point among them; None without a
   digit. *)
FirstDecimal(text) ==
    LET IsDigitAt(i) == i <= Len(text) /\ text[i] \in AsciiDigits
        digits == {i \in 1..Len(text) : IsDigitAt(i)}
    IN  IF digits = {} THEN None
        ELSE LET d == CHOOSE i \in digits : \A j \in digits : i <= j
                 p == IF d > 1 /\ text[d - 1] = "." THEN d - 1 ELSE d
                 lo == IF p > 1 /\ text[p - 1] = "-" THEN p - 1 ELSE p
                 RunEnd(from) ==
                     CHOOSE k \in from..Len(text) :
                         /\ \A j \in from..k : IsDigitAt(j)
                         /\ ~IsDigitAt(k + 1)
                 int_end == RunEnd(d)
                 hi == IF p = d /\ int_end < Len(text)
                            /\ text[int_end + 1] = "."
                       THEN IF IsDigitAt(int_end + 2)
                            THEN RunEnd(int_end + 2) ELSE int_end + 1
                       ELSE int_end
             IN  PyFloat(SubSeq(text, lo, hi))

(* C7, as claimed: the rating is the first decimal-number substring of the
   rating text wherever it stands, and None when the element is missing or
   the text has none; the call does not raise. *)
C7_FirstDecimalAnywhere ==
    result # None =>
        /\ ~result[1].raised
        /\ result[1].value.rating =
               IF Present(SelRating) THEN FirstDecimal(fragment[SelRating])
               ELSE None

(* The first whitespace-delimited token of a text: from the first non-blank
   character up to the next blank. *)
LeadingToken(text) ==
    LET nonblank == {i \in 1..Len(text) : ~IsSpace(text[i])}
    IN  IF nonblank = {} THEN <<>>
        ELSE LET lo == CHOOSE i \in nonblank : \A j \in nonblank : i <= j
                 hi == CHOOSE k \in lo..Len(text) :
                          /\ \A j \in lo..k : ~IsSpace(text[j])
                          /\ k = Len(text) \/ IsSpace(text[k + 1])
             IN  SubSeq(text, lo, hi)

(* C7, amended: the rating is the number the leading token of the rating text
   denotes when that whole token is a number literal, and None when the
   element is missing, the text is "N/A" or blank, or the leading token is
   no number literal; the call does not raise. *)
C7_LeadingTokenOnly ==
    result # None =>
        /\ ~result[1].raised
        /\ result[1].value.rating =
               IF ~Present(SelRating) \/ fragment[SelRating] = NA THEN None
               ELSE PyFloat(LeadingToken(fragment[SelRating]))

(* C7 witness: "4.5 out of 5 stars" was parsed to 4.5. *)
C7_Witness ==
    /\ Returned
    /\ Present(SelRating)
    /\ Len(fragment[SelRating]) > MaxRatingLen
    /\ result[1].value.rating = Some(Finite(1, <<1, 0, 0, 1>>, -1))

-----------------------------------------------------------------------------
(* Properties of scrape_amazon_products. *)

RECURSIVE Flatten(_)
Flatten(lists) ==
    IF lists = <<>> THEN <<>> ELSE Head(lists) \o Flatten(Tail(lists))

(* The records of the fragments whose extraction does not raise, in order. *)
RECURSIVE SuccessRecords(_)
SuccessRecords(fragments) ==
    IF fragments = <<>> THEN <<>>
    ELSE LET r == ExtractProductDetails(Head(fragments))
         IN  (IF r.raised THEN <<>> ELSE <<r.value>>)
                 \o SuccessRecords(Tail(fragments))

(* The fragments the fragment loop has gone through so far. *)
Processed ==
    IF pc = "extract"
    THEN Flatten(SubSeq(loaded, 1, Len(loaded) - 1))
             \o SubSeq(product_elements, 1, idx - 1)
    ELSE Flatten(loaded)

(* C2: a fragment whose extraction raises is skipped and nothing else: at
   every point the list holds the records of exactly the processed fragments
   that did not raise, in page and fragment order, and the value returned is
   that list for all fragments of all loaded pages. *)
C2_FragmentFailureIsolated ==
    /\ products = SuccessRecords(Processed)
    /\ pc = "done" => returned = Some(SuccessRecords(Flatten(loaded)))

(* C2 witness: a fragment raised on the first page, the fragment after it and
   a later page were still processed, and their records were returned. *)
C2_Witness ==
    /\ pc = "done"
    /\ Len(loaded) = 2
    /\ Len(loaded[1]) = 2
    /\ ExtractProductDetails(loaded[1][1]).raised
    /\ ~ExtractProductDetails(loaded[1][2]).raised
    /\ ~ExtractProductDetails(loaded[2][1]).raised
    /\ Len(returned[1]) >= 2

QuitEvents == {i \in DOMAIN events : events[i].op = "quit"}
ErrorEvents == {i \in DOMAIN events : events[i].op = "error"}

(* C10: once the driver has been created it is quit exactly once by the time
   the call is over, no driver call follows the quit, and when the function
   has returned the value returned is the list collected up to the
   page-level failure, if there was one. *)
C10_DriverQuitOnce ==
    /\ Cardinality(QuitEvents) <= 1
    /\ \A i \in QuitEvents : i = Len(events)
    /\ (driver = "quit") <=> (QuitEvents # {})
    /\ (pc \in {"done", "raised"} /\ driver # "none") =>
          Cardinality(QuitEvents) = 1
    /\ pc = "done" =>
          \A i \in ErrorEvents : returned = Some(events[i].collected)

-----------------------------------------------------------------------------
(* Properties of save_to_database. *)

Tables == {"products", "reviews", "sales"}

(* The rows of a table that were not there before the call. *)
NewRows(t) == SubSeq(committed[t], Len(PriorTables[t]) + 1, Len(committed[t]))

RowsOf(t, product_id) ==
    {i \in DOMAIN committed[t] : committed[t][i].Product_Id = product_id}

(* C8: after a successful save of N products each table has gained exactly N
   rows, one per product, linked to the product's id. *)
C8_OneRowPerProduct ==
    spc = "saved" =>
        /\ \A t \in Tables : Len(NewRows(t)) = Len(to_save)
        /\ \A i \in 1..Len(NewRows("products")) :
              \A t \in Tables :
                  Cardinality(RowsOf(t, NewRows("products")[i].Product_Id)) = 1

NothingSaved == committed = PriorTables

AllSaved ==
    /\ \A t \in Tables :
          SubSeq(committed[t], 1, Len(PriorTables[t])) = PriorTables[t]
    /\ Len(NewRows("products")) = Len(to_save)
    /\ \A i \in 1..Len(to_save) :
          /\ "product_name" \in DOMAIN to_save[i]
          /\ NewRows("products")[i].Product_Name = to_save[i].product_name
          /\ RowsOf("reviews", NewRows("products")[i].Product_Id) # {}
          /\ RowsOf("sales", NewRows("products")[i].Product_Id) # {}

(* C9: at every point either no row of this call is visible or the rows of
   every product are; after a failure (a database error, or a product dict
   without a name) none is; after a successful save all are. *)
C9_AllOrNothing ==
    /\ NothingSaved \/ AllSaved
    /\ spc \in {"db_error", "raised"} => NothingSaved
    /\ spc = "saved" => AllSaved

(* C9 witness: the call failed at the second product, after the rows of the
   first had been inserted, and no row is visible. *)
C9_Witness ==
    /\ spc \in {"db_error", "raised"}
    /\ si = 2
    /\ Len(to_save) = 2
    /\ NothingSaved

====
